---- MODULE Spec2Model ----
\* Graph extraction and relationship analysis of a dbt manifest
\* (src/analysis.py, called from src/app.py): read_graph builds a
\* networkx DiGraph from the manifest, extract_node_graph / get_relations_df /
\* create_pydot_viz analyse the neighbourhood of a selected node.
EXTENDS Integers, FiniteSets, Sequences, TLC

VARIABLES manifest, G, op, arg, res

vars == <<manifest, G, op, arg, res>>

----------------------------------------------------------------------------
\* Bounds of the explored inputs.

\* node ids 1..MaxNodes and at most MaxEdges dependency edges (analysis runs)
MaxNodes == 3
MaxEdges == 4
\* node ids and edges of the typed graphs handed to the projector
MaxVizNodes == 3
MaxVizEdges == 3
\* ids and edge-map entries of the manifests read_graph is exercised on
MaxBuildIds == 2
MaxEntries == 2
MaxMapEdges == 2
\* largest "Max Relation Distance" tried
MaxDist == 2
\* nodes of the wide graph, and those of them that edges may join
WideNodes == 5
WideRelated == 2

----------------------------------------------------------------------------
\* Outcomes: a call either returns a value or raises.

NoError == "none"
\* networkx raises NetworkXError("The node ... is not in the graph") from
\* descendants/ancestors: the outcome the specification calls NodeNotFoundError.
NodeNotFoundError == "NetworkXError"
\* shortest_path_length: endpoint missing / no path
NodeNotFound == "NodeNotFound"
NetworkXNoPath == "NetworkXNoPath"

Ok(v) == [err |-> NoError, val |-> v]
Raise(e) == [err |-> e]
Returned(r) == r.err = NoError /\ "val" \in DOMAIN r

----------------------------------------------------------------------------
\* networkx.DiGraph: node -> attribute dict, the set of directed edges, and
\* the nodes in insertion order (the order G.nodes iterates in).

NoAttrs == [k \in {} |-> ""]

EmptyGraph == [node |-> [n \in {} |-> NoAttrs], adj |-> {}, order |-> <<>>]

Nodes(g) == DOMAIN g.node

\* dict.update: keys of d win, other keys of old stay
dict_update(old, d) ==
    [k \in (DOMAIN old) \cup (DOMAIN d) |-> IF k \in DOMAIN d THEN d[k] ELSE old[k]]

\* add_node as assignment: the attribute dict is replaced, not updated
add_node_replace(g, n, d) ==
    [g EXCEPT !.node = [x \in (DOMAIN g.node) \cup {n} |-> IF x = n THEN d ELSE g.node[x]],
              !.order = IF n \in DOMAIN g.node THEN @ ELSE Append(@, n)]

\* G.add_node(n, **d): a new node gets d, an existing node's dict is updated
add_node(g, n, d) ==
    [g EXCEPT !.node =
        [x \in (DOMAIN g.node) \cup {n} |->
            IF x = n
            THEN (IF n \in DOMAIN g.node THEN dict_update(g.node[n], d) ELSE d)
            ELSE g.node[x]],
       !.order = IF n \in DOMAIN g.node THEN @ ELSE Append(@, n)]

\* G.add_edge(u, v): missing endpoints are created without attributes,
\* an edge is stored once per (u, v)
add_edge(g, u, v) ==
    LET g1 == IF u \in Nodes(g) THEN g ELSE add_node(g, u, NoAttrs)
        g2 == IF v \in Nodes(g1) THEN g1 ELSE add_node(g1, v, NoAttrs)
    IN [g2 EXCEPT !.adj = @ \cup {<<u, v>>}]

\* the view G.subgraph(nodes) iterates the Python set of the kept nodes, and
\* not the nodes of G, when it keeps fewer than half of them
reads_set(g, nodes) ==
    2 * Cardinality(nodes \cap Nodes(g)) < Cardinality(Nodes(g))

\* G.subgraph(nodes): the induced subgraph view. Its nodes are listed in the
\* order of G, or, when the view iterates the set of the kept nodes, in the
\* order set_order in which Python iterates that set
subgraph(g, nodes, set_order) ==
    [node  |-> [n \in nodes \cap Nodes(g) |-> g.node[n]],
     adj   |-> {e \in g.adj : e[1] \in nodes /\ e[2] \in nodes},
     order |-> IF reads_set(g, nodes)
               THEN SelectSeq(set_order, LAMBDA n : n \in nodes \cap Nodes(g))
               ELSE SelectSeq(g.order, LAMBDA n : n \in nodes)]

\* the orderings of a set of nodes
Orderings(S) ==
    {p \in [1..Cardinality(S) -> S] : \A i, j \in 1..Cardinality(S) : p[i] = p[j] => i = j}

\* the orders in which Python may iterate the set of the kept nodes of
\* G.subgraph(nodes): any order (it follows the hashes of the ids). Where the
\* view does not iterate the set, one order stands for all
set_orders(g, nodes) ==
    IF reads_set(g, nodes) THEN Orderings(nodes \cap Nodes(g))
    ELSE {SelectSeq(g.order, LAMBDA n : n \in nodes)}

\* nx.degree(G): in-degree + out-degree (a self-loop counts twice)
degree(g) ==
    [n \in Nodes(g) |->
        Cardinality({e \in g.adj : e[1] = n}) + Cardinality({e \in g.adj : e[2] = n})]

----------------------------------------------------------------------------
\* read_graph

\* a manifest mapping is the list of its <<key, value>> items in document order
Keys(items) == {items[i][1] : i \in DOMAIN items}
Lookup(items, key) == items[CHOOSE i \in DOMAIN items : items[i][1] = key][2]

\* for n, d in mapping.items(): G.add_node(n, **d)
RECURSIVE add_nodes_from(_, _)
add_nodes_from(g, items) ==
    IF items = <<>> THEN g
    ELSE add_nodes_from(add_node(g, Head(items)[1], Head(items)[2]), Tail(items))

\* for child in children: G.add_edge(n, child)
RECURSIVE add_children(_, _, _)
add_children(g, n, children) ==
    IF children = <<>> THEN g
    ELSE add_children(add_edge(g, n, Head(children)), n, Tail(children))

\* add_parents with the edge direction swapped: G.add_edge(n, parent)
RECURSIVE add_parents_reversed(_, _, _)
add_parents_reversed(g, n, parents) ==
    IF parents = <<>> THEN g
    ELSE add_parents_reversed(add_edge(g, n, Head(parents)), n, Tail(parents))

\* for parent in parents: G.add_edge(parent, n)
RECURSIVE add_parents(_, _, _)
add_parents(g, n, parents) ==
    IF parents = <<>> THEN g
    ELSE add_parents(add_edge(g, Head(parents), n), n, Tail(parents))

\* for n, children in manifest["child_map"].items()
RECURSIVE add_child_map(_, _)
add_child_map(g, items) ==
    IF items = <<>> THEN g
    ELSE add_child_map(add_children(g, Head(items)[1], Head(items)[2]), Tail(items))

\* for n, parents in manifest["parent_map"].items()
RECURSIVE add_parent_map(_, _)
add_parent_map(g, items) ==
    IF items = <<>> THEN g
    ELSE add_parent_map(add_parents(g, Head(items)[1], Head(items)[2]), Tail(items))

read_graph(m) ==
    LET g1 == add_nodes_from(EmptyGraph, m.nodes)
        g2 == add_nodes_from(g1, m.sources)
        g3 == add_nodes_from(g2, m.exposures)
        g4 == add_child_map(g3, m.child_map)
    IN add_parent_map(g4, m.parent_map)

----------------------------------------------------------------------------
\* networkx traversal

Succ(g, n) == {v \in Nodes(g) : <<n, v>> \in g.adj}
Pred(g, n) == {u \in Nodes(g) : <<u, n>> \in g.adj}
Nbrs(g, n, forward) == IF forward THEN Succ(g, n) ELSE Pred(g, n)

\* breadth-first search: the nodes visited from the frontier
RECURSIVE bfs_visit(_, _, _, _)
bfs_visit(g, frontier, visited, forward) ==
    LET next == (UNION {Nbrs(g, n, forward) : n \in frontier}) \ visited
    IN IF next = {} THEN visited
       ELSE bfs_visit(g, next, visited \cup next, forward)

\* descendants as the direct successors only (G.successors)
descendants_direct(g, source) ==
    IF source \notin Nodes(g) THEN Raise(NodeNotFoundError)
    ELSE Ok(Succ(g, source) \ {source})

\* nx.descendants(G, source): every node reached from source, source excluded
descendants(g, source) ==
    IF source \notin Nodes(g) THEN Raise(NodeNotFoundError)
    ELSE Ok(bfs_visit(g, {source}, {source}, TRUE) \ {source})

\* ancestors that keeps the source when it lies on a cycle
ancestors_with_source(g, source) ==
    IF source \notin Nodes(g) THEN Raise(NodeNotFoundError)
    ELSE Ok(UNION {bfs_visit(g, {p}, {p}, FALSE) : p \in Pred(g, source)})

\* nx.ancestors(G, source): every node that reaches source, source excluded
ancestors(g, source) ==
    IF source \notin Nodes(g) THEN Raise(NodeNotFoundError)
    ELSE Ok(bfs_visit(g, {source}, {source}, FALSE) \ {source})

\* level of target in the breadth-first search from the frontier, -1 if none
RECURSIVE bfs_level(_, _, _, _, _)
bfs_level(g, frontier, visited, target, d) ==
    IF target \in frontier THEN d
    ELSE LET next == (UNION {Succ(g, n) : n \in frontier}) \ visited
         IN IF next = {} THEN -1
            ELSE bfs_level(g, next, visited \cup next, target, d + 1)

\* shortest_path_length counting the nodes of the path instead of its edges
shortest_path_length_in_nodes(g, source, target) ==
    IF source \notin Nodes(g) \/ target \notin Nodes(g) THEN Raise(NodeNotFound)
    ELSE LET d == bfs_level(g, {source}, {source}, target, 0)
         IN IF d < 0 THEN Raise(NetworkXNoPath) ELSE Ok(d + 1)

\* nx.shortest_path_length(G, source, target)
shortest_path_length(g, source, target) ==
    IF source \notin Nodes(g) \/ target \notin Nodes(g) THEN Raise(NodeNotFound)
    ELSE LET d == bfs_level(g, {source}, {source}, target, 0)
         IN IF d < 0 THEN Raise(NetworkXNoPath) ELSE Ok(d)

----------------------------------------------------------------------------
\* analysis.py

\* extract_node_graph with a traversal that does not look the node up first
\* (G.subgraph ignores ids that are not in G)
extract_node_graph_lenient(g, node, set_order) ==
    Ok(subgraph(g, bfs_visit(g, {node}, {node}, TRUE) \cup bfs_visit(g, {node}, {node}, FALSE),
                set_order))

\* extract_node_graph that forgets the ancestors
extract_node_graph_descendants_only(g, node, set_order) ==
    LET desc == descendants(g, node)
    IN IF desc.err # NoError THEN Raise(desc.err)
       ELSE Ok(subgraph(g, {node} \cup desc.val, set_order))

\* selected_nodes = [node] + ancestors + descendants
selected_nodes(g, node) ==
    LET desc == descendants(g, node)
        anc  == ancestors(g, node)
    IN IF desc.err # NoError THEN Raise(desc.err)
       ELSE IF anc.err # NoError THEN Raise(anc.err)
       ELSE Ok({node} \cup anc.val \cup desc.val)

\* set_order: the order in which Python iterates the set of selected_nodes
extract_node_graph(g, node, set_order) ==
    LET selected == selected_nodes(g, node)
    IN IF selected.err # NoError THEN selected
       ELSE Ok(subgraph(g, selected.val, set_order))

\* data[target] = {"distance": dist, "relationship": r}
RelationRow(dist, r) == [distance |-> dist, relationship |-> r]

\* the dict after the ancestors loop
ancestor_rows(g, n, anc) ==
    [t \in anc |-> RelationRow(shortest_path_length(g, t, n).val, "ancestor")]

\* the dict after the descendants loop: a key written again is overwritten
descendant_rows(g, n, desc, data) ==
    [t \in (DOMAIN data) \cup desc |->
        IF t \in desc
        THEN RelationRow(shortest_path_length(g, n, t).val, "descendant")
        ELSE data[t]]

\* get_relations_df with the two loops in the other order: ancestors written last
get_relations_df_ancestors_last(g, n) ==
    LET desc == descendants(g, n)
        anc  == ancestors(g, n)
    IN IF desc.err # NoError THEN Raise(desc.err)
       ELSE IF anc.err # NoError THEN Raise(anc.err)
       ELSE Ok([t \in anc.val \cup desc.val |->
                  IF t \in anc.val
                  THEN RelationRow(shortest_path_length(g, t, n).val, "ancestor")
                  ELSE RelationRow(shortest_path_length(g, n, t).val, "descendant")])

get_relations_df(g, n) ==
    LET desc == descendants(g, n)
        anc  == ancestors(g, n)
    IN IF desc.err # NoError THEN Raise(desc.err)
       ELSE IF anc.err # NoError THEN Raise(anc.err)
       ELSE Ok(descendant_rows(g, n, desc.val, ancestor_rows(g, n, anc.val)))

\* static style table node_fmt (shape, fillcolor, color per resource type)
node_fmt ==
    [model     |-> [shape |-> "box",       fillcolor |-> "white",  color |-> "black"],
     test      |-> [shape |-> "ellipses",  fillcolor |-> "yellow", color |-> "black"],
     source    |-> [shape |-> "cds",       fillcolor |-> "white",  color |-> "blue"],
     seed      |-> [shape |-> "cds",       fillcolor |-> "white",  color |-> "blue"],
     snapshot  |-> [shape |-> "component", fillcolor |-> "yellow", color |-> "black"],
     analysis  |-> [shape |-> "note",      fillcolor |-> "yellow", color |-> "black"],
     operation |-> [shape |-> "diamond",   fillcolor |-> "yellow", color |-> "black"],
     exposure  |-> [shape |-> "diamond",   fillcolor |-> "yellow", color |-> "black"]]

\* str(e.get(key)) as interpolated into the label: "None" for an absent attribute
attr_str(e, key) == IF key \in DOMAIN e THEN e[key] ELSE "None"

\* e.get("resource_type") in types, types being a collection of strings:
\* the None of an absent attribute is in no such collection
resource_type_in(e, types) ==
    "resource_type" \in DOMAIN e /\ e["resource_type"] \in types

\* viz_dist trying the direction selected -> n first
viz_dist_forward_first(g, n, selected_node) ==
    LET away == shortest_path_length(g, selected_node, n)
    IN IF away.err = NoError THEN away
       ELSE shortest_path_length(g, n, selected_node)

\* try: shortest_path_length(G, n, selected) except: shortest_path_length(G, selected, n)
viz_dist(g, n, selected_node) ==
    LET towards == shortest_path_length(g, n, selected_node)
    IN IF towards.err = NoError THEN towards
       ELSE shortest_path_length(g, selected_node, n)

\* the filter of the loop: True when the node is skipped (continue)
viz_skipped(e, dist, visible_node_types, max_node_distance) ==
    \/ dist > max_node_distance
    \/ ~resource_type_in(e, visible_node_types)

\* viz_formatting without the override of the selected node
viz_formatting_no_override(n, e, selected_node) ==
    LET rt   == e["resource_type"]
        base == node_fmt[rt]
        lbl  == IF rt # "model" THEN rt \o "." \o attr_str(e, "name")
                ELSE attr_str(e, "name")
    IN [shape     |-> base.shape,
        color     |-> base.color,
        label     |-> lbl,
        fillcolor |-> base.fillcolor]

\* the formatting dict of an emitted node
viz_formatting(n, e, selected_node) ==
    LET rt   == e["resource_type"]
        base == node_fmt[rt]
        lbl  == IF rt # "model" THEN rt \o "." \o attr_str(e, "name")
                ELSE attr_str(e, "name")
    IN [shape     |-> base.shape,
        color     |-> base.color,
        label     |-> lbl,
        fillcolor |-> IF n = selected_node THEN "green" ELSE base.fillcolor]

\* what the loop body raises for a node, NoError when it raises nothing
viz_node_error(e, dist, visible_node_types, max_node_distance) ==
    IF dist.err # NoError THEN dist.err
    ELSE IF viz_skipped(e, dist.val, visible_node_types, max_node_distance) THEN NoError
    ELSE IF ~resource_type_in(e, DOMAIN node_fmt) THEN "KeyError"
    ELSE NoError

\* the loop runs over G.nodes in order and stops at the first node that raises
create_pydot_viz(g, selected_node, visible_node_types, max_node_distance) ==
    LET dist == [n \in Nodes(g) |-> viz_dist(g, n, selected_node)]
        error_at == [i \in DOMAIN g.order |->
                        viz_node_error(g.node[g.order[i]], dist[g.order[i]],
                                       visible_node_types, max_node_distance)]
        failing == {i \in DOMAIN g.order : error_at[i] # NoError}
        first == CHOOSE i \in failing : \A j \in failing : i <= j
        node_list == {n \in Nodes(g) :
                        ~viz_skipped(g.node[n], dist[n].val, visible_node_types,
                                     max_node_distance)}
    IN IF failing # {} THEN Raise(error_at[first])
       ELSE Ok([nodes |-> [n \in node_list |-> viz_formatting(n, g.node[n], selected_node)],
                edges |-> subgraph(g, node_list, g.order).adj])

----------------------------------------------------------------------------
\* Manifests the runs start from.

\* the ids of a set as a list, in ascending order
RECURSIVE ListOf(_)
ListOf(S) ==
    IF S = {} THEN <<>>
    ELSE LET m == CHOOSE x \in S : \A y \in S : x <= y
         IN <<m>> \o ListOf(S \ {m})

EdgeSets(ids, max) == {E \in SUBSET (ids \X ids) : Cardinality(E) <= max}

\* the items <<n, value[n]>> of the ids, in ascending order of id
ItemsOf(ids, value) ==
    LET keys == ListOf(ids) IN [i \in DOMAIN keys |-> <<keys[i], value[keys[i]]>>]

\* child_map / parent_map of the edge set E (pairs <<parent, child>>)
ChildMapOf(ids, E) ==
    ItemsOf(ids, [n \in ids |-> ListOf({v \in ids : <<n, v>> \in E})])
ParentMapOf(ids, E) ==
    ItemsOf(ids, [n \in ids |-> ListOf({u \in ids : <<u, n>> \in E})])

NoEntries == <<>>

NodeEntry(rt) == [resource_type |-> rt, name |-> "n"]

\* the ids as entries of one resource type
EntriesOfType(ids, rt) == ItemsOf(ids, [n \in ids |-> NodeEntry(rt)])

\* a well-formed manifest: ids 1..k are models, both maps encode E
AnalysisManifest(k, E) ==
    [nodes      |-> EntriesOfType(1..k, "model"),
     sources    |-> NoEntries,
     exposures  |-> NoEntries,
     child_map  |-> ChildMapOf(1..k, E),
     parent_map |-> ParentMapOf(1..k, E)]

VizTypes == {"model", "source"}

\* a well-formed manifest with sources (ids 1..j) under sources and models
\* (ids j+1..k) under nodes; every typed graph is one of these up to renaming
VizManifest(k, j, E) ==
    [nodes      |-> EntriesOfType((j+1)..k, "model"),
     sources    |-> EntriesOfType(1..j, "source"),
     exposures  |-> NoEntries,
     child_map  |-> ChildMapOf(1..k, E),
     parent_map |-> ParentMapOf(1..k, E)]

BuildIds == 1..MaxBuildIds
AttrKeys == {"resource_type", "name"}
AttrValues == {"model", "source"}
AttrDicts == UNION {[K -> AttrValues] : K \in SUBSET AttrKeys}
Mappings == {"nodes", "sources", "exposures"}

\* the entries S (pairs <<mapping, id>>) with attribute dicts f, as one mapping
EntriesOf(S, f, mapping) ==
    LET ids == {i \in BuildIds : <<mapping, i>> \in S}
    IN ItemsOf(ids, [n \in ids |-> f[<<mapping, n>>]])

\* a manifest whose ids may collide across nodes / sources / exposures
AttrManifest(S, f) ==
    [nodes      |-> EntriesOf(S, f, "nodes"),
     sources    |-> EntriesOf(S, f, "sources"),
     exposures  |-> EntriesOf(S, f, "exposures"),
     child_map  |-> ChildMapOf({}, {}),
     parent_map |-> ParentMapOf({}, {})]

\* a manifest whose child_map (E1) and parent_map (E2) are chosen independently
EdgeManifest(ids, E1, E2) ==
    [nodes      |-> EntriesOfType(ids, "model"),
     sources    |-> NoEntries,
     exposures  |-> NoEntries,
     child_map  |-> ChildMapOf(BuildIds, E1),
     parent_map |-> ParentMapOf(BuildIds, E2)]

----------------------------------------------------------------------------
\* One run of the application: the manifest is read, then an analysis
\* operation is invoked with inputs chosen by the user.

NoResult == [err |-> NoError]

\* before read_graph has run
Start ==
    /\ G = EmptyGraph
    /\ op = "start"
    /\ arg = <<>>
    /\ res = NoResult

\* G = read_graph(uploaded_file)
ReadGraph ==
    /\ op = "start"
    /\ G' = read_graph(manifest)
    /\ op' = "read_graph"
    /\ arg' = <<>>
    /\ res' = NoResult
    /\ UNCHANGED manifest

\* the iteration orders of the set of nodes extract_node_graph(g, node) keeps
\* (of no nodes, when it raises)
selected_set_orders(g, node) ==
    LET selected == selected_nodes(g, node)
    IN set_orders(g, IF selected.err = NoError THEN selected.val ELSE {})

\* extract_node_graph(G, node)
ExtractNodeGraph(node) ==
    /\ op = "read_graph"
    /\ op' = "extract_node_graph"
    /\ arg' = <<node>>
    /\ \E set_order \in selected_set_orders(G, node) :
          res' = extract_node_graph(G, node, set_order)
    /\ UNCHANGED <<manifest, G>>

\* get_relations_df(G, n)
GetRelationsDf(n) ==
    /\ op = "read_graph"
    /\ op' = "get_relations_df"
    /\ arg' = <<n>>
    /\ res' = get_relations_df(G, n)
    /\ UNCHANGED <<manifest, G>>

\* app.py: g_node = extract_node_graph(G, selected_node)
\*         related_node_distances = get_relations_df(g_node, selected_node)
\* for selected_node any node of G (the selectbox offers some of them)
node_detail(g, selected_node, set_order) ==
    get_relations_df(extract_node_graph(g, selected_node, set_order).val, selected_node)

NodeDetail(selected_node) ==
    /\ op = "read_graph"
    /\ selected_node \in Nodes(G)
    /\ op' = "node_detail"
    /\ arg' = <<selected_node>>
    /\ \E set_order \in selected_set_orders(G, selected_node) :
          res' = node_detail(G, selected_node, set_order)
    /\ UNCHANGED <<manifest, G>>

\* create_pydot_viz(G, selected_node, visible_node_types, max_node_distance)
CreatePydotViz(selected_node, visible_node_types, max_node_distance) ==
    /\ op = "read_graph"
    /\ op' = "create_pydot_viz"
    /\ arg' = <<selected_node, visible_node_types, max_node_distance>>
    /\ res' = create_pydot_viz(G, selected_node, visible_node_types, max_node_distance)
    /\ UNCHANGED <<manifest, G>>

\* create_pydot_viz called on g_node = extract_node_graph(G, node); nothing is
\* projected when extract_node_graph raised
node_graph_viz(g_node, node, visible_node_types, max_node_distance) ==
    IF g_node.err # NoError THEN g_node
    ELSE create_pydot_viz(g_node.val, node, visible_node_types, max_node_distance)

\* the call above for any node, and for any allowed types and maximum
\* distance among Types and Dists
NodeGraphViz(node, Types, Dists) ==
    /\ op = "read_graph"
    /\ op' = "node_graph_viz"
    /\ \E set_order \in selected_set_orders(G, node) :
          LET g_node == extract_node_graph(G, node, set_order)
          IN \E visible_node_types \in Types, max_node_distance \in Dists :
                /\ arg' = <<node, visible_node_types, max_node_distance>>
                /\ res' = node_graph_viz(g_node, node, visible_node_types,
                                         max_node_distance)
    /\ UNCHANGED <<manifest, G>>

\* a graph is also read that has WideNodes nodes and edges among the first
\* WideRelated of them only, so that a neighbourhood is less than half of it
Init ==
    /\ \/ \E k \in 0..MaxNodes : \E E \in EdgeSets(1..k, MaxEdges) :
             manifest = AnalysisManifest(k, E)
       \/ \E E \in EdgeSets(1..WideRelated, MaxEdges) :
             manifest = AnalysisManifest(WideNodes, E)
    /\ Start

Next ==
    \/ ReadGraph
    \/ \E n \in 1..MaxNodes : ExtractNodeGraph(n)
    \/ \E n \in 1..MaxNodes : GetRelationsDf(n)
    \/ \E n \in 1..MaxNodes : NodeDetail(n)

Spec == Init /\ [][Next]_vars

InitViz ==
    /\ \E k \in 0..MaxVizNodes : \E j \in 0..k : \E E \in EdgeSets(1..k, MaxVizEdges) :
          manifest = VizManifest(k, j, E)
    /\ Start

NextViz ==
    \/ ReadGraph
    \/ \E n \in 1..MaxVizNodes, T \in SUBSET VizTypes, d \in 0..MaxDist :
          CreatePydotViz(n, T, d)

SpecViz == InitViz /\ [][NextViz]_vars

\* typed graphs whose dependency edges join distinct nodes (the projector is
\* run on graphs with self-loops under SpecViz)
InitNodeViz ==
    /\ \E k \in 0..MaxVizNodes : \E j \in 0..k : \E E \in EdgeSets(1..k, MaxVizEdges) :
          /\ \A e \in E : e[1] # e[2]
          /\ manifest = VizManifest(k, j, E)
    /\ Start

\* the projector on the neighbourhood of a node of the graph read
NextNodeViz ==
    \/ ReadGraph
    \/ \E n \in 1..MaxVizNodes : NodeGraphViz(n, SUBSET VizTypes, 0..MaxDist)

SpecNodeViz == InitNodeViz /\ [][NextNodeViz]_vars

InitBuild ==
    /\ \/ \E S \in SUBSET (Mappings \X BuildIds) :
             /\ Cardinality(S) <= MaxEntries
             /\ \E f \in [S -> AttrDicts] : manifest = AttrManifest(S, f)
       \/ \E ids \in {{}, BuildIds} :
             \E E1 \in EdgeSets(BuildIds, MaxMapEdges), E2 \in EdgeSets(BuildIds, MaxMapEdges) :
                manifest = EdgeManifest(ids, E1, E2)
    /\ Start

NextBuild == ReadGraph

SpecBuild == InitBuild /\ [][NextBuild]_vars

----------------------------------------------------------------------------
\* Graph notions the properties are stated with, defined on walks and
\* independently of the traversal above.

\* there is a directed walk of exactly k edges from a to b
RECURSIVE HasWalk(_, _, _, _)
HasWalk(g, a, b, k) ==
    IF k = 0 THEN a = b
    ELSE \E c \in Nodes(g) : <<a, c>> \in g.adj /\ HasWalk(g, c, b, k - 1)

\* lengths (>= 1) of the directed walks from a to b, up to the number of nodes
PathLengths(g, a, b) == {k \in 1..Cardinality(Nodes(g)) : HasWalk(g, a, b, k)}

\* a directed path of at least one edge leads from a to b
Reaches(g, a, b) == PathLengths(g, a, b) # {}

\* length in edges of the shortest directed path from a to b
ShortestLen(g, a, b) ==
    LET lengths == PathLengths(g, a, b)
    IN CHOOSE k \in lengths : \A j \in lengths : k <= j

IsAcyclic(g) == \A n \in Nodes(g) : ~Reaches(g, n, n)

\* x with its ancestors and descendants, and the edges among them
NeighborhoodOf(g, x) ==
    LET keep == {n \in Nodes(g) : n = x \/ Reaches(g, n, x) \/ Reaches(g, x, n)}
    IN [node |-> [n \in keep |-> g.node[n]],
        adj  |-> {e \in g.adj : e[1] \in keep /\ e[2] \in keep}]

\* the selected node of the last operation
Selected == arg[1]

----------------------------------------------------------------------------
\* Relation tables (specification Spec)

\* C1: on an acyclic graph, get_relations_df(G, X) has exactly one row per
\* ancestor or descendant of X and no other row; an ancestor is labelled
\* "ancestor" with the length of the shortest path to X, a descendant is
\* labelled "descendant" with the length of the shortest path from X.
C1_RelationsOnDag ==
    (op = "get_relations_df" /\ Selected \in Nodes(G) /\ IsAcyclic(G)) =>
        /\ Returned(res)
        /\ DOMAIN res.val =
              {n \in Nodes(G) : Reaches(G, n, Selected) \/ Reaches(G, Selected, n)}
        /\ \A n \in DOMAIN res.val :
              /\ Reaches(G, n, Selected) =>
                    res.val[n] = RelationRow(ShortestLen(G, n, Selected), "ancestor")
              /\ Reaches(G, Selected, n) =>
                    res.val[n] = RelationRow(ShortestLen(G, Selected, n), "descendant")

\* an acyclic graph in which a related node at distance 1 is also joined to
\* X by a path of two edges
C1_Witness ==
    /\ op = "get_relations_df" /\ Selected \in Nodes(G) /\ IsAcyclic(G)
    /\ Returned(res)
    /\ \E n \in DOMAIN res.val :
          /\ res.val[n].distance = 1
          /\ HasWalk(G, Selected, n, 2) \/ HasWalk(G, n, Selected, 2)

\* C2: symmetry: if the table of X holds A as an ancestor at distance d, the
\* table of A, computed on the full graph, holds X as a descendant at distance d.
C2_Symmetry ==
    (op = "get_relations_df" /\ Returned(res)) =>
        \A A \in DOMAIN res.val :
            res.val[A].relationship = "ancestor" =>
                LET back == get_relations_df(G, A)
                IN /\ Returned(back)
                   /\ Selected \in DOMAIN back.val
                   /\ back.val[Selected] = RelationRow(res.val[A].distance, "descendant")

\* X has an ancestor two edges away
C2_Witness ==
    /\ op = "get_relations_df" /\ Returned(res)
    /\ \E A \in DOMAIN res.val : res.val[A] = RelationRow(2, "ancestor")

\* C3: self-exclusion: the table of X never has a row keyed by X, and no row
\* has distance 0, also when X lies on a cycle or has a self-loop.
C3_SelfExclusion ==
    (op \in {"get_relations_df", "node_detail"} /\ Returned(res)) =>
        /\ Selected \notin DOMAIN res.val
        /\ \A n \in DOMAIN res.val : res.val[n].distance # 0

\* X lies on a cycle through another node, and X has a self-loop
C3_Witness ==
    /\ op = "get_relations_df" /\ Returned(res)
    /\ <<Selected, Selected>> \in G.adj
    /\ \E n \in DOMAIN res.val : Reaches(G, n, Selected) /\ Reaches(G, Selected, n)

\* C6: extract_node_graph and get_relations_df end in the node-not-found
\* outcome, returning nothing, when the node is not in G, and return a result
\* without error for every node of G.
C6_NodeNotFound ==
    (op \in {"extract_node_graph", "get_relations_df"}) =>
        /\ Selected \notin Nodes(G) =>
              res.err = NodeNotFoundError /\ "val" \notin DOMAIN res
        /\ Selected \in Nodes(G) => Returned(res)

\* a node that is absent from a non-empty graph was asked for
C6_Witness ==
    /\ op = "extract_node_graph"
    /\ Nodes(G) # {}
    /\ Selected \notin Nodes(G)
    /\ res.err = NodeNotFoundError

\* C8: a node that is both an ancestor and a descendant of X (a cycle through
\* X) has one row, the descendant one, with the shortest distance from X.
C8_DescendantWins ==
    (op = "get_relations_df" /\ Returned(res)) =>
        \A n \in Nodes(G) \ {Selected} :
            (Reaches(G, n, Selected) /\ Reaches(G, Selected, n)) =>
                /\ n \in DOMAIN res.val
                /\ res.val[n] = RelationRow(ShortestLen(G, Selected, n), "descendant")

\* a node on a cycle through X that is nearer from X than to X
C8_Witness ==
    /\ op = "get_relations_df" /\ Returned(res)
    /\ \E n \in DOMAIN res.val :
          /\ Reaches(G, n, Selected) /\ Reaches(G, Selected, n)
          /\ ShortestLen(G, Selected, n) < ShortestLen(G, n, Selected)

\* C10: the relations computed on the neighbourhood subgraph, as the
\* application does, equal the relations computed on the full graph.
C10_NeighborhoodLosesNothing ==
    (op = "node_detail") => res = get_relations_df(G, Selected)

\* a node outside the neighbourhood of X with an edge to a related node
C10_Witness ==
    /\ op = "node_detail" /\ Returned(res)
    /\ \E b \in Nodes(G) \ ({Selected} \cup DOMAIN res.val) :
          \E a \in DOMAIN res.val : <<b, a>> \in G.adj \/ <<a, b>> \in G.adj

----------------------------------------------------------------------------
\* read_graph (specification SpecBuild)

\* the elements of a list
Elems(list) == {list[i] : i \in DOMAIN list}

\* the edges <<parent, child>> a child_map / a parent_map encodes
ChildMapEdges(cmap) ==
    UNION {{<<cmap[i][1], c>> : c \in Elems(cmap[i][2])} : i \in DOMAIN cmap}
ParentMapEdges(pmap) ==
    UNION {{<<q, pmap[i][1]>> : q \in Elems(pmap[i][2])} : i \in DOMAIN pmap}

NoLists(map) == [i \in DOMAIN map |-> <<map[i][1], <<>>>>]

\* C4: when child_map and parent_map encode the same edges, the graph has
\* each edge once, and the same edges and degrees as the graph built from
\* the child_map alone or from the parent_map alone.
C4_IdempotentEdges ==
    (op = "read_graph"
     /\ ChildMapEdges(manifest.child_map) = ParentMapEdges(manifest.parent_map)) =>
        LET E == ChildMapEdges(manifest.child_map)
            child_only  == read_graph([manifest EXCEPT !.parent_map = NoLists(@)])
            parent_only == read_graph([manifest EXCEPT !.child_map = NoLists(@)])
        IN /\ G.adj = E
           /\ Cardinality(G.adj) = Cardinality(E)
           /\ child_only.adj = G.adj /\ parent_only.adj = G.adj
           /\ degree(child_only) = degree(G) /\ degree(parent_only) = degree(G)

\* both maps encode the same two edges
C4_Witness ==
    /\ op = "read_graph"
    /\ ChildMapEdges(manifest.child_map) = ParentMapEdges(manifest.parent_map)
    /\ Cardinality(G.adj) = 2
    /\ \E e \in G.adj : <<e[2], e[1]>> \notin G.adj

\* the mappings, in the order read_graph processes them, that hold id
HoldersOf(m, id) ==
    {i \in 1..3 : id \in Keys(<<m.nodes, m.sources, m.exposures>>[i])}

EntryOf(m, i, id) == Lookup(<<m.nodes, m.sources, m.exposures>>[i], id)

CollidingIds(m) ==
    {id \in Keys(m.nodes) \cup Keys(m.sources) \cup Keys(m.exposures) :
        Cardinality(HoldersOf(m, id)) > 1}

LastHolder(m, id) == CHOOSE i \in HoldersOf(m, id) : \A j \in HoldersOf(m, id) : j <= i

\* C5 as stated: a colliding id carries exactly the attribute mapping of the
\* later mapping; no attribute of the earlier entry alone remains.
C5_LaterReplaces ==
    (op = "read_graph") =>
        \A id \in CollidingIds(manifest) :
            G.node[id] = EntryOf(manifest, LastHolder(manifest, id), id)

\* C5 amended: a colliding id carries the merge of its entries: every
\* attribute of any entry is on the node, with the value of the latest
\* mapping (nodes, sources, exposures) whose entry has it; attributes of the
\* earlier entry alone remain.
C5_LaterMerges ==
    (op = "read_graph") =>
        \A id \in CollidingIds(manifest) :
            /\ DOMAIN G.node[id] =
                  UNION {DOMAIN EntryOf(manifest, i, id) : i \in HoldersOf(manifest, id)}
            /\ \A k \in DOMAIN G.node[id] :
                  LET having == {i \in HoldersOf(manifest, id) :
                                    k \in DOMAIN EntryOf(manifest, i, id)}
                      last   == CHOOSE i \in having : \A j \in having : j <= i
                  IN G.node[id][k] = EntryOf(manifest, last, id)[k]

\* an id under nodes and sources: one attribute in both with different
\* values, one attribute in the earlier entry only
C5_Witness ==
    /\ op = "read_graph"
    /\ \E id \in Keys(manifest.nodes) \cap Keys(manifest.sources) :
          LET early == Lookup(manifest.nodes, id)
              late  == Lookup(manifest.sources, id)
          IN /\ (DOMAIN early) \ (DOMAIN late) # {}
             /\ \E k \in (DOMAIN early) \cap (DOMAIN late) : early[k] # late[k]

----------------------------------------------------------------------------
\* create_pydot_viz (specification SpecViz)

VizVisible == arg[2]
VizMaxDistance == arg[3]

\* distance of n as the projector is specified: to the selected node when a
\* path leads there, otherwise from the selected node
SpecDist(g, n, x) ==
    IF n = x THEN 0
    ELSE IF Reaches(g, n, x) THEN ShortestLen(g, n, x)
    ELSE ShortestLen(g, x, n)

\* C7 as stated: the selected node is always in the node list, filled green,
\* whatever the allowed resource types and the maximum distance (>= 0).
C7_SelectedAlwaysRetained ==
    (op = "create_pydot_viz" /\ Selected \in Nodes(G) /\ Returned(res)) =>
        /\ Selected \in DOMAIN res.val.nodes
        /\ res.val.nodes[Selected].fillcolor = "green"

\* C7 amended: the selected node is in the node list exactly when its
\* resource_type is in the allowed set (for every maximum distance >= 0),
\* and when it is in the list it is filled green.
C7_SelectedRetainedIfVisible ==
    (op = "create_pydot_viz" /\ Selected \in Nodes(G) /\ Returned(res)) =>
        /\ Selected \in DOMAIN res.val.nodes <=>
              resource_type_in(G.node[Selected], VizVisible)
        /\ Selected \in DOMAIN res.val.nodes =>
              res.val.nodes[Selected].fillcolor = "green"

\* the selected node is emitted green next to another emitted node, while
\* some node of the graph is filtered out by its type
C7_Witness ==
    /\ op = "create_pydot_viz" /\ Returned(res)
    /\ Selected \in DOMAIN res.val.nodes
    /\ res.val.nodes[Selected].fillcolor = "green"
    /\ \E n \in DOMAIN res.val.nodes : n # Selected
    /\ \E n \in Nodes(G) : ~resource_type_in(G.node[n], VizVisible)

\* C9: called on the view that is the neighbourhood of the selected node, for
\* every set of allowed types and every maximum distance >= 0, the projector
\* completes without error and emits n iff n's resource_type is allowed and
\* dist(n) <= the maximum distance, dist(n) being the shortest path length
\* n -> selected when such a path exists and selected -> n otherwise.
C9_EmittedNodes ==
    (op = "node_graph_viz" /\ Selected \in Nodes(G)) =>
        LET view == NeighborhoodOf(G, Selected)
        IN /\ Returned(res)
           /\ DOMAIN res.val.nodes =
                 {n \in Nodes(view) :
                     /\ resource_type_in(view.node[n], VizVisible)
                     /\ SpecDist(view, n, Selected) <= VizMaxDistance}

\* a visible node on a cycle through the selected node, within the maximum
\* distance from the selected node but not to it, is left out, while the
\* selected node itself is emitted
C9_Witness ==
    /\ op = "node_graph_viz" /\ Returned(res)
    /\ Selected \in DOMAIN res.val.nodes
    /\ \E n \in Nodes(G) \ {Selected} :
          /\ Reaches(G, n, Selected) /\ Reaches(G, Selected, n)
          /\ ShortestLen(G, Selected, n) <= VizMaxDistance
          /\ ShortestLen(G, n, Selected) > VizMaxDistance
          /\ resource_type_in(G.node[n], VizVisible)
          /\ n \notin DOMAIN res.val.nodes

====
